---- MODULE Spec2Model ----
(***************************************************************************)
(* One ServiceForm session (src/components/TimePicker.tsx, lines 338-696;  *)
(* PMForm, lines 1099-1387, and App, src/unnamed/part_000, carry the same  *)
(* handlers): the document binding currentDocId, saveStatus, the local     *)
(* collection in localStorage, the cloud collection, the history view, and *)
(* the asynchronous handlers handleSave, loadHistory, deleteHistoryItem,   *)
(* loadHistoryItem and handleSubmit, each split at its awaits.             *)
(*                                                                         *)
(* A handler is a closure of the render in which it was created: the state *)
(* it reads (saveStatus, currentDocId, formData) is the state of that      *)
(* render.  A click runs the handler of the latest render; the handleSave  *)
(* that handleSubmit calls after its awaits is the one of the render in    *)
(* which Submit was clicked.                                               *)
(***************************************************************************)
EXTENDS Integers, Sequences, FiniteSets, TLC

\* ---------------------------------------------------------------- bounds
MaxSaves == 2
MaxSubmits == 1
MaxDeletes == 1
MaxLoads == 1
MaxEdits == 1
MaxStored == 2
MaxTime == 3
MaxUsers == 3

\* ------------------------------------------------------------- constants
Me == 1
Other == 2
NoTech == 0
StartTime == 2
Skews == {0 - 2, 1}

NoId == <<"none", 0>>
LocalId(n) == <<"local", n>>
CloudId(n) == <<"cloud", n>>

\* A PIN or code is the sequence of its characters
MASTER_CODE == <<8, 8, 8, 8, 8, 8>>

\* What can be typed into a PIN field (maxLength 6)
PinInputs ==
    {<<>>, <<1, 2, 3>>, <<1, 2, 3, 4>>, <<5, 6, 7, 8>>, MASTER_CODE}

NoUser == [id |-> 0, pin |-> <<>>]

\* The technician of the session and another technician of the device
UserMe == [id |-> Me, pin |-> <<1, 2, 3, 4>>]

UserOther == [id |-> Other, pin |-> <<5, 6, 7, 8>>]

VARIABLES
    currentDocId,
    saveStatus,
    formData,
    history,
    isSubmitting,
    local,
    lsMode,
    cloud,
    nextCloud,
    now,
    skew,
    saves,
    mountLoad,
    del,
    sub,
    alerts,
    uncaught,
    downloads,
    emailOffers,
    nDeletes,
    nLoads,
    nSubmits,
    nEdits,
    users,
    view,
    selectedUser,
    loginMode,
    pinInput,
    error,
    loggedIn,
    masterFor

\* The state of LoginScreen (src/components/LoginScreen.tsx, lines 14-31),
\* the user it handed to onLogin, and the user for whom the master code
\* was accepted
loginVars == <<users, view, selectedUser, loginMode, pinInput, error,
               loggedIn, masterFor>>

\* The state of the form session
formVars == <<currentDocId, saveStatus, formData, history, isSubmitting,
              local, lsMode, cloud, nextCloud, now, skew, saves, mountLoad,
              del, sub, alerts, uncaught, downloads, emailOffers, nDeletes,
              nLoads, nSubmits, nEdits>>

vars == <<formVars, loginVars>>

\* ------------------------------------------------------------ pure parts

\* docId.startsWith('local_')
IsLocalId(id) == id[1] = "local"

\* 'local_draft_' + Date.now()
MintLocalId(t) == LocalId(t)

\* serverTimestamp(): the server's clock, which need not agree with the
\* client's
ServerTime == now + skew

\* { id, timestamp: Date.now(), data: { ...data, techId: currentUser?.id } }
NewReport(data, id) ==
    [id |-> id, timestamp |-> now, techId |-> Me, sig |-> data.sig]

\* allReports.findIndex(r => r.id === id): 0 when there is none
RECURSIVE FindIndexFrom(_, _, _)
FindIndexFrom(s, id, i) ==
    IF i > Len(s) THEN 0
    ELSE IF s[i].id = id THEN i
    ELSE FindIndexFrom(s, id, i + 1)

FindIndex(s, id) == FindIndexFrom(s, id, 1)

\* (mutant) saveToLocalStorage that drops the old record and puts the new
\* one first
UpsertMoveToFront(allReports, data, id) ==
    <<[id |-> id, timestamp |-> now, techId |-> Me, sig |-> data.sig]>>
        \o SelectSeq(allReports, LAMBDA r : r.id # id)

\* (mutant) saveToLocalStorage without the findIndex: always push
UpsertPush(allReports, data, id) == Append(allReports, NewReport(data, id))

\* saveToLocalStorage: replace at existingIndex, or push
Upsert(allReports, data, id) ==
    LET existingIndex == FindIndex(allReports, id)
    IN  IF existingIndex > 0
        THEN [allReports EXCEPT ![existingIndex] = NewReport(data, id)]
        ELSE Append(allReports, NewReport(data, id))

\* (mutant) loadHistory without the filter on the local records
FilterTechAll(s, t) == s

\* parsed.filter(item => item.data.techId === currentUser.id)
RECURSIVE FilterTech(_, _)
FilterTech(s, t) ==
    IF s = <<>> THEN <<>>
    ELSE IF Head(s).techId = t
         THEN <<Head(s)>> \o FilterTech(Tail(s), t)
         ELSE FilterTech(Tail(s), t)

\* allReports.filter(r => r.id !== id), history.filter(item => item.id !== id)
RECURSIVE FilterOutId(_, _)
FilterOutId(s, id) ==
    IF s = <<>> THEN <<>>
    ELSE IF Head(s).id # id
         THEN <<Head(s)>> \o FilterOutId(Tail(s), id)
         ELSE FilterOutId(Tail(s), id)

\* localStorage as the handlers find it: "ok", "full" (setItem throws),
\* "corrupt" (JSON.parse throws), "nodata" (the array parses but holds an
\* element without a data field, so item.data.techId throws while r.id does
\* not)
Readable == lsMode \in {"ok", "full"}

Writable == lsMode \in {"ok", "nodata"}

\* (mutant) the local part when what the try block throws is not noticed
LocalPartOfUnguarded(loc) == FilterTech(loc, Me)

\* The local part of loadHistory: the try block around getItem, JSON.parse
\* and filter; what it throws is caught and leaves the local part empty
LocalPartOf(loc) == IF Readable THEN FilterTech(loc, Me) ELSE <<>>

LocalPart == LocalPartOf(local)

\* doc.data().timestamp?.toMillis() || Date.now()
CloudItem(d) ==
    [id |-> d.id,
     timestamp |-> IF d.timestamp # 0 THEN d.timestamp ELSE now,
     techId |-> d.techId, sig |-> d.sig]

\* where('techId', '==', currentUser.id)
QueryDocs(cl) == {d \in cl : d.techId = Me}

\* snapshot.docs.map(...): the documents of the snapshot in some order
Orderings(S) ==
    {f \in [1..Cardinality(S) -> S] :
        \A i, j \in 1..Cardinality(S) : f[i] = f[j] => i = j}

\* combinedHistory.sort((a, b) => b.timestamp - a.timestamp): stable
RECURSIVE InsertDesc(_, _)
InsertDesc(x, s) ==
    IF s = <<>> THEN <<x>>
    ELSE IF Head(s).timestamp >= x.timestamp
         THEN <<Head(s)>> \o InsertDesc(x, Tail(s))
         ELSE <<x>> \o s

RECURSIVE SortDescFrom(_, _)
SortDescFrom(s, acc) ==
    IF s = <<>> THEN acc
    ELSE SortDescFrom(Tail(s), InsertDesc(Head(s), acc))

SortDesc(s) == SortDescFrom(s, <<>>)

\* (mutant) loadHistory without the Map: no deduplication
UniqueHistoryKeepAll(s) == s

\* (mutant) a Map that keeps the first value set for a key
RECURSIVE FirstWithId(_, _)
FirstWithId(s, id) ==
    IF Head(s).id = id THEN Head(s) ELSE FirstWithId(Tail(s), id)

\* Array.from(new Map(combined.map(item => [item.id, item])).values()):
\* a key keeps the position of its first entry and the value of its last
RECURSIVE LastWithId(_, _)
LastWithId(s, id) ==
    IF s[Len(s)].id = id THEN s[Len(s)]
    ELSE LastWithId(SubSeq(s, 1, Len(s) - 1), id)

RECURSIVE UniqueFrom(_, _, _)
UniqueFrom(s, i, seen) ==
    IF i > Len(s) THEN <<>>
    ELSE IF s[i].id \in seen THEN UniqueFrom(s, i + 1, seen)
    ELSE <<LastWithId(s, s[i].id)>> \o UniqueFrom(s, i + 1, seen \cup {s[i].id})

UniqueHistory(s) == UniqueFrom(s, 1, {})

\* loadHistory, from the concatenation on
MergedHistory(localPart, cloudItems) ==
    UniqueHistory(SortDesc(localPart \o cloudItems))

\* The cloud part of loadHistory for a snapshot in the order f
CloudItems(f) == [i \in DOMAIN f |-> CloudItem(f[i])]

Ids(s) == {s[i].id : i \in DOMAIN s}

CloudIds == {d.id : d \in cloud}

CloudDoc(id) == CHOOSE d \in cloud : d.id = id

\* addDoc(collection, { ...formData, techId: currentUser.id,
\*                      timestamp: serverTimestamp() })
AddDoc(data, id) ==
    [id |-> id, timestamp |-> ServerTime, techId |-> Me, sig |-> data.sig]

\* (mutant) the document is replaced, not merged: techId is lost when the
\* form data has none
UpdateDocReplace(d, data) ==
    [id |-> d.id, timestamp |-> ServerTime, techId |-> data.techId,
     sig |-> data.sig]

\* updateDoc(docRef, { ...formData, timestamp: serverTimestamp() }): the
\* fields given are merged into the document; techId is given only when the
\* form data carries one (data loaded from the history)
UpdateDoc(d, data) ==
    [id |-> d.id, timestamp |-> ServerTime,
     techId |-> IF data.techId # NoTech THEN data.techId ELSE d.techId,
     sig |-> data.sig]

\* ------------------------------------------------------------------ state

NoForm == [sig |-> FALSE, techId |-> NoTech]

\* A record another technician left on the device and in the cloud
ForeignLocal ==
    [id |-> LocalId(0), timestamp |-> 1, techId |-> Other, sig |-> TRUE]

ForeignCloud ==
    [id |-> CloudId(0), timestamp |-> 1, techId |-> Other, sig |-> TRUE]

IdleSubmit ==
    [pc |-> "idle", st |-> "idle", did |-> NoId, fd |-> NoForm,
     result |-> "none", upload |-> "none", saveIx |-> 0, cloudOk |-> FALSE]

IdleDelete == [pc |-> "idle", id |-> NoId, did |-> NoId, result |-> "none"]

\* useState initial values (lines 339-347) and the effect on mount (lines
\* 372-379), which calls loadHistory: its local part is read at once, its
\* cloud query is in flight
FormInit ==
    /\ currentDocId = NoId
    /\ saveStatus = "idle"
    /\ formData = NoForm
    /\ history = <<>>
    /\ isSubmitting = FALSE
    /\ local = <<ForeignLocal>>
    /\ cloud = {ForeignCloud}
    /\ lsMode = "ok"
    /\ nextCloud = 1
    /\ now = StartTime
    /\ skew \in Skews
    /\ saves = <<>>
    /\ mountLoad = [pc |-> "query", localPart |-> LocalPart, query |-> "none"]
    /\ del = IdleDelete
    /\ sub = IdleSubmit
    /\ alerts = {}
    /\ uncaught = FALSE
    /\ downloads = 0
    /\ emailOffers = 0
    /\ nDeletes = 0
    /\ nLoads = 0
    /\ nSubmits = 0
    /\ nEdits = 0

\* LoginScreen as it was when it called onLogin for the technician of the
\* session, which is what mounts the form
LoginDone ==
    /\ users = {UserMe, UserOther}
    /\ view = "login"
    /\ selectedUser = UserMe
    /\ loginMode = "pin"
    /\ pinInput = UserMe.pin
    /\ error = ""
    /\ loggedIn = UserMe
    /\ masterFor = 0

Init == FormInit /\ LoginDone

\* ------------------------------------------------------------- handleSave

\* handleSave up to its first await, as the closure that saw the state
\* (st, did, fd) runs it: the saveStatus guard, the minting of a local draft
\* id, setCurrentDocId(docId) and the start of the cloud call.  The clock
\* has moved on by the time anything that follows reads it.
HandleSaveStart(st, did, fd, by) ==
    IF st # "idle"
    THEN UNCHANGED <<saveStatus, currentDocId, saves, now>>
    ELSE LET docId == IF did = NoId THEN MintLocalId(now) ELSE did
         IN  /\ saveStatus' = "saving"
             /\ now' = now + 1
             /\ currentDocId' = docId
             /\ saves' = Append(saves,
                    [by |-> by, bound |-> did, startId |-> docId,
                     docId |-> docId, form |-> fd, pc |-> "cloud",
                     outcome |-> "none", op |-> "none", wroteLocal |-> FALSE,
                     refreshes |-> 0, localPart |-> <<>>,
                     bindAfter |-> NoId])

PendingSubmitSave == IF sub.pc = "upload" THEN 1 ELSE 0

\* The Save button (disabled while saveStatus is 'saving')
SaveClick ==
    /\ saveStatus # "saving"
    /\ Len(saves) + PendingSubmitSave < MaxSaves
    /\ HandleSaveStart(saveStatus, currentDocId, formData, "button")
    /\ UNCHANGED <<formData, history, isSubmitting, local, lsMode, cloud,
                   nextCloud, skew, mountLoad, del, sub, alerts, uncaught,
                   downloads, emailOffers, nDeletes, nLoads, nSubmits, nEdits>>
    /\ UNCHANGED loginVars

\* (bookkeeping) a document-store call has succeeded since Submit was clicked
NoteCloudOk ==
    sub' = IF sub.result \in {"none", "delivered"} /\ nSubmits > 0
           THEN [sub EXCEPT !.cloudOk = TRUE] ELSE sub

\* (mutant) addDoc resolves and the local record of the draft is removed
SaveCreateOkReconciles(i) ==
    /\ saves[i].pc = "cloud"
    /\ IsLocalId(saves[i].docId)
    /\ LET newId == CloudId(nextCloud)
       IN  /\ cloud' = cloud \cup {AddDoc(saves[i].form, newId)}
           /\ nextCloud' = nextCloud + 1
           /\ currentDocId' = newId
           /\ saveStatus' = "success"
           /\ local' = FilterOutId(local, saves[i].docId)
           /\ saves' = [saves EXCEPT ![i] =
                  [@ EXCEPT !.docId = newId, !.pc = "refresh",
                            !.outcome = "success", !.op = "create",
                            !.refreshes = 1,
                            !.localPart = LocalPartOf(local'),
                            !.bindAfter = newId]]
    /\ NoteCloudOk
    /\ UNCHANGED <<now, formData, history, isSubmitting, lsMode, skew,
                   mountLoad, del, alerts, uncaught, downloads, emailOffers,
                   nDeletes, nLoads, nSubmits, nEdits>>
    /\ UNCHANGED loginVars

\* addDoc resolves: the document exists under a cloud-assigned id, the
\* binding is replaced, the outcome is success and loadHistory is called
SaveCreateOk(i) ==
    /\ saves[i].pc = "cloud"
    /\ IsLocalId(saves[i].docId)
    /\ LET newId == CloudId(nextCloud)
       IN  /\ cloud' = cloud \cup {AddDoc(saves[i].form, newId)}
           /\ nextCloud' = nextCloud + 1
           /\ currentDocId' = newId
           /\ saveStatus' = "success"
           /\ saves' = [saves EXCEPT ![i] =
                  [@ EXCEPT !.docId = newId, !.pc = "refresh",
                            !.outcome = "success", !.op = "create",
                            !.refreshes = 1, !.localPart = LocalPart,
                            !.bindAfter = newId]]
    /\ NoteCloudOk
    /\ UNCHANGED <<now, formData, history, isSubmitting, local, lsMode, skew,
                   mountLoad, del, alerts, uncaught, downloads, emailOffers,
                   nDeletes, nLoads, nSubmits, nEdits>>
    /\ UNCHANGED loginVars

\* updateDoc resolves: it succeeds only on a document that exists
SaveUpdateOk(i) ==
    /\ saves[i].pc = "cloud"
    /\ ~IsLocalId(saves[i].docId)
    /\ saves[i].docId \in CloudIds
    /\ cloud' = (cloud \ {CloudDoc(saves[i].docId)})
                  \cup {UpdateDoc(CloudDoc(saves[i].docId), saves[i].form)}
    /\ saveStatus' = "success"
    /\ saves' = [saves EXCEPT ![i] =
           [@ EXCEPT !.pc = "refresh", !.outcome = "success",
                     !.op = "update", !.refreshes = 1,
                     !.localPart = LocalPart, !.bindAfter = currentDocId]]
    /\ NoteCloudOk
    /\ UNCHANGED <<now, currentDocId, formData, history, isSubmitting, local,
                   lsMode, nextCloud, skew, mountLoad, del, alerts, uncaught,
                   downloads, emailOffers, nDeletes, nLoads, nSubmits, nEdits>>
    /\ UNCHANGED loginVars

\* The cloud call rejects: the catch block calls saveToLocalStorage, which
\* throws when the stored JSON does not parse or setItem fails; the throw
\* leaves handleSave as a rejected promise nobody handles
SaveCloudFail(i) ==
    /\ saves[i].pc = "cloud"
    /\ IF Writable
       THEN /\ local' = Upsert(local, saves[i].form, saves[i].docId)
            /\ saveStatus' = "local"
            /\ saves' = [saves EXCEPT ![i] =
                   [@ EXCEPT !.pc = "refresh", !.outcome = "local",
                             !.wroteLocal = TRUE, !.refreshes = 1,
                             !.localPart = LocalPartOf(local'),
                             !.bindAfter = currentDocId]]
            /\ UNCHANGED uncaught
       ELSE /\ saves' = [saves EXCEPT ![i] =
                   [@ EXCEPT !.pc = "crashed", !.outcome = "failure",
                             !.bindAfter = currentDocId]]
            /\ uncaught' = TRUE
            /\ UNCHANGED <<local, saveStatus>>
    /\ UNCHANGED <<now, currentDocId, formData, history, isSubmitting, lsMode,
                   cloud, nextCloud, skew, mountLoad, del, sub, alerts,
                   downloads, emailOffers, nDeletes, nLoads, nSubmits, nEdits>>
    /\ UNCHANGED loginVars

\* The getDocs of the save's loadHistory resolves, or rejects (the cloud part
\* is then empty); setHistory, then setTimeout(..., 2000)
SaveRefreshDone(i) ==
    /\ saves[i].pc = "refresh"
    /\ \/ /\ \E f \in Orderings(QueryDocs(cloud)) :
                history' = MergedHistory(saves[i].localPart, CloudItems(f))
          /\ NoteCloudOk
       \/ /\ history' = MergedHistory(saves[i].localPart, <<>>)
          /\ UNCHANGED sub
    /\ saves' = [saves EXCEPT ![i] = [@ EXCEPT !.pc = "timer"]]
    /\ UNCHANGED <<now, currentDocId, saveStatus, formData, isSubmitting,
                   local, lsMode, cloud, nextCloud, skew, mountLoad, del,
                   alerts, uncaught, downloads, emailOffers, nDeletes, nLoads,
                   nSubmits, nEdits>>
    /\ UNCHANGED loginVars

\* The timer set at the end of handleSave fires 2000 ms later
SaveTimerFires(i) ==
    /\ saves[i].pc = "timer"
    /\ saveStatus' = "idle"
    /\ saves' = [saves EXCEPT ![i] = [@ EXCEPT !.pc = "done"]]
    /\ UNCHANGED <<currentDocId, formData, history, isSubmitting, local,
                   lsMode, cloud, nextCloud, now, skew, mountLoad, del, sub,
                   alerts, uncaught, downloads, emailOffers, nDeletes, nLoads,
                   nSubmits, nEdits>>
    /\ UNCHANGED loginVars

\* (mutant) loadHistory without the try/catch around getDocs: a rejected
\* query ends the handler, nothing is stored
MountLoadDoneNoCatch ==
    /\ mountLoad.pc = "query"
    /\ \/ /\ \E f \in Orderings(QueryDocs(cloud)) :
                history' = MergedHistory(mountLoad.localPart, CloudItems(f))
          /\ mountLoad' = [mountLoad EXCEPT !.pc = "done", !.query = "ok"]
          /\ UNCHANGED uncaught
       \/ /\ uncaught' = TRUE
          /\ mountLoad' = [mountLoad EXCEPT !.pc = "done", !.query = "failed"]
          /\ UNCHANGED history
    /\ UNCHANGED <<currentDocId, saveStatus, formData, isSubmitting, local,
                   lsMode, cloud, nextCloud, now, skew, saves, del, sub,
                   alerts, downloads, emailOffers, nDeletes, nLoads,
                   nSubmits, nEdits>>
    /\ UNCHANGED loginVars

\* The getDocs of the loadHistory called on mount resolves or rejects
MountLoadDone ==
    /\ mountLoad.pc = "query"
    /\ \/ /\ \E f \in Orderings(QueryDocs(cloud)) :
                history' = MergedHistory(mountLoad.localPart, CloudItems(f))
          /\ mountLoad' = [mountLoad EXCEPT !.pc = "done", !.query = "ok"]
          /\ NoteCloudOk
       \/ /\ history' = MergedHistory(mountLoad.localPart, <<>>)
          /\ mountLoad' = [mountLoad EXCEPT !.pc = "done", !.query = "failed"]
          /\ UNCHANGED sub
    /\ UNCHANGED <<currentDocId, saveStatus, formData, isSubmitting, local,
                   lsMode, cloud, nextCloud, now, skew, saves, del, alerts,
                   uncaught, downloads, emailOffers, nDeletes, nLoads,
                   nSubmits, nEdits>>
    /\ UNCHANGED loginVars

\* ----------------------------------------------------------- handleSubmit

\* handleOfflineSubmit: pdfDoc.save(fileName), then handleSave() (not
\* awaited) with the state of the render in which Submit was clicked, then
\* the timer of the email offer and setIsSubmitting(false)
HandleOfflineSubmit(st, did, fd, upload) ==
    /\ downloads' = downloads + 1
    /\ HandleSaveStart(st, did, fd, "submit")
    /\ isSubmitting' = FALSE
    /\ sub' = [IdleSubmit EXCEPT
                 !.pc = "email", !.result = "delivered", !.upload = upload,
                 !.saveIx = IF st = "idle" THEN Len(saves) + 1 ELSE 0,
                 !.cloudOk = (sub.pc = "upload" /\ sub.cloudOk)]

\* (mutant) handleSubmit without the signature check: the unsigned form is
\* rendered, downloaded and saved
SubmitUnsignedProceeds ==
    /\ ~isSubmitting
    /\ sub.pc = "idle"
    /\ ~formData.sig
    /\ nSubmits < MaxSubmits
    /\ Len(saves) < MaxSaves
    /\ nSubmits' = nSubmits + 1
    /\ HandleOfflineSubmit(saveStatus, currentDocId, formData, "skipped")
    /\ UNCHANGED <<formData, history, local, lsMode, cloud, nextCloud, skew,
                   mountLoad, del, alerts, uncaught, emailOffers, nDeletes,
                   nLoads, nEdits>>
    /\ UNCHANGED loginVars

\* Submit without a technician signature: the alert, and nothing else
SubmitUnsigned ==
    /\ ~isSubmitting
    /\ sub.pc = "idle"
    /\ ~formData.sig
    /\ nSubmits < MaxSubmits
    /\ nSubmits' = nSubmits + 1
    /\ alerts' = alerts \cup {"sign"}
    /\ sub' = [IdleSubmit EXCEPT !.result = "validation"]
    /\ UNCHANGED <<currentDocId, saveStatus, formData, history, isSubmitting,
                   local, lsMode, cloud, nextCloud, now, skew, saves,
                   mountLoad, del, uncaught, downloads, emailOffers, nDeletes,
                   nLoads, nEdits>>
    /\ UNCHANGED loginVars

\* (mutant) the outer catch only logs: the rendering error is not shown
SubmitRenderFailsSilent ==
    /\ ~isSubmitting
    /\ sub.pc = "idle"
    /\ formData.sig
    /\ nSubmits < MaxSubmits
    /\ nSubmits' = nSubmits + 1
    /\ sub' = [IdleSubmit EXCEPT !.result = "renderError"]
    /\ UNCHANGED <<currentDocId, saveStatus, formData, history, isSubmitting,
                   local, lsMode, cloud, nextCloud, now, skew, saves,
                   mountLoad, del, alerts, uncaught, downloads, emailOffers,
                   nDeletes, nLoads, nEdits>>
    /\ UNCHANGED loginVars

\* Submit with a signature when generatePDFBlob throws: the alert of the
\* outer catch, and finally setIsSubmitting(false)
SubmitRenderFails ==
    /\ ~isSubmitting
    /\ sub.pc = "idle"
    /\ formData.sig
    /\ nSubmits < MaxSubmits
    /\ nSubmits' = nSubmits + 1
    /\ alerts' = alerts \cup {"error"}
    /\ sub' = [IdleSubmit EXCEPT !.result = "renderError"]
    /\ UNCHANGED <<currentDocId, saveStatus, formData, history, isSubmitting,
                   local, lsMode, cloud, nextCloud, now, skew, saves,
                   mountLoad, del, uncaught, downloads, emailOffers, nDeletes,
                   nLoads, nEdits>>
    /\ UNCHANGED loginVars

\* Submit with a signature, the PDF rendered, and storage && navigator.onLine
\* true: uploadBytes is awaited
SubmitUploads ==
    /\ ~isSubmitting
    /\ sub.pc = "idle"
    /\ formData.sig
    /\ nSubmits < MaxSubmits
    /\ Len(saves) < MaxSaves
    /\ nSubmits' = nSubmits + 1
    /\ isSubmitting' = TRUE
    /\ sub' = [pc |-> "upload", st |-> saveStatus, did |-> currentDocId,
               fd |-> formData, result |-> "none", upload |-> "none",
               saveIx |-> 0, cloudOk |-> FALSE]
    /\ UNCHANGED <<now, currentDocId, saveStatus, formData, history, local,
                   lsMode, cloud, nextCloud, skew, saves, mountLoad, del,
                   alerts, uncaught, downloads, emailOffers, nDeletes, nLoads,
                   nEdits>>
    /\ UNCHANGED loginVars

\* Submit with a signature, the PDF rendered, and the upload skipped
\* (navigator.onLine false): handleOfflineSubmit runs in the same task
SubmitOffline ==
    /\ ~isSubmitting
    /\ sub.pc = "idle"
    /\ formData.sig
    /\ nSubmits < MaxSubmits
    /\ Len(saves) < MaxSaves
    /\ nSubmits' = nSubmits + 1
    /\ HandleOfflineSubmit(saveStatus, currentDocId, formData, "skipped")
    /\ UNCHANGED <<formData, history, local, lsMode, cloud, nextCloud, skew,
                   mountLoad, del, alerts, uncaught, emailOffers, nDeletes,
                   nLoads, nEdits>>
    /\ UNCHANGED loginVars

\* uploadBytes resolves or rejects (the rejection is caught and logged);
\* handleOfflineSubmit follows in both cases
SubmitUploadDone ==
    /\ sub.pc = "upload"
    /\ \E ok \in BOOLEAN :
          HandleOfflineSubmit(sub.st, sub.did, sub.fd,
                              IF ok THEN "ok" ELSE "failed")
    /\ UNCHANGED <<formData, history, local, lsMode, cloud, nextCloud, skew,
                   mountLoad, del, alerts, uncaught, emailOffers, nDeletes,
                   nLoads, nSubmits, nEdits>>
    /\ UNCHANGED loginVars

\* The timer of handleOfflineSubmit fires 1000 ms later: the confirm that
\* offers the email draft
SubmitEmailOffer ==
    /\ sub.pc = "email"
    /\ emailOffers' = emailOffers + 1
    /\ sub' = [sub EXCEPT !.pc = "idle"]
    /\ UNCHANGED <<currentDocId, saveStatus, formData, history, isSubmitting,
                   local, lsMode, cloud, nextCloud, now, skew, saves,
                   mountLoad, del, alerts, uncaught, downloads, nDeletes,
                   nLoads, nSubmits, nEdits>>
    /\ UNCHANGED loginVars

\* ------------------------------------------ deleteHistoryItem, loadHistoryItem

\* The delete button of a history entry, confirmed: deleteDoc is awaited
DeleteClick(id) ==
    /\ del.pc = "idle"
    /\ nDeletes < MaxDeletes
    /\ id \in Ids(history)
    /\ nDeletes' = nDeletes + 1
    /\ del' = [pc |-> "cloud", id |-> id, did |-> currentDocId,
               result |-> "none"]
    /\ UNCHANGED <<now, currentDocId, saveStatus, formData, history,
                   isSubmitting, local, lsMode, cloud, nextCloud, skew, saves,
                   mountLoad, sub, alerts, uncaught, downloads, emailOffers,
                   nLoads, nSubmits, nEdits>>
    /\ UNCHANGED loginVars

\* deleteDoc resolves (the document is gone) or rejects (caught); then the
\* local collection is rewritten without the id, the entry leaves the
\* history view and the binding is cleared when the closure's currentDocId
\* is the id.  JSON.parse or setItem throwing ends the handler before that.
DeleteCloudDone ==
    /\ del.pc = "cloud"
    /\ \E ok \in BOOLEAN :
          /\ cloud' = IF ok THEN {d \in cloud : d.id # del.id} ELSE cloud
          /\ IF ok THEN NoteCloudOk ELSE UNCHANGED sub
    /\ \E throws \in BOOLEAN :
          /\ Writable => ~throws
          /\ lsMode = "corrupt" => throws
          /\ IF throws
             THEN /\ uncaught' = TRUE
                  /\ del' = [del EXCEPT !.pc = "idle", !.result = "threw"]
                  /\ UNCHANGED <<local, history, currentDocId>>
             ELSE /\ local' = FilterOutId(local, del.id)
                  /\ history' = FilterOutId(history, del.id)
                  /\ currentDocId' =
                        IF del.id = del.did THEN NoId ELSE currentDocId
                  /\ del' = [del EXCEPT !.pc = "idle", !.result = "done"]
                  /\ UNCHANGED uncaught
    /\ UNCHANGED <<saveStatus, formData, isSubmitting, lsMode, nextCloud, now,
                   skew, saves, mountLoad, alerts, downloads, emailOffers,
                   nDeletes, nLoads, nSubmits, nEdits>>
    /\ UNCHANGED loginVars

\* A history entry tapped and the confirm accepted
LoadHistoryItem(i) ==
    /\ nLoads < MaxLoads
    /\ i \in DOMAIN history
    /\ nLoads' = nLoads + 1
    /\ formData' = [sig |-> history[i].sig, techId |-> history[i].techId]
    /\ currentDocId' = history[i].id
    /\ UNCHANGED <<saveStatus, history, isSubmitting, local, lsMode, cloud,
                   nextCloud, now, skew, saves, mountLoad, del, sub, alerts,
                   uncaught, downloads, emailOffers, nDeletes, nSubmits,
                   nEdits>>
    /\ UNCHANGED loginVars

\* ------------------------------------------------------ the form, the world

\* The signature pad: handleInputChange('techSignature', dataUrl | null)
SetSignature(b) ==
    /\ nEdits < MaxEdits
    /\ formData.sig # b
    /\ nEdits' = nEdits + 1
    /\ formData' = [formData EXCEPT !.sig = b]
    /\ UNCHANGED <<currentDocId, saveStatus, history, isSubmitting, local,
                   lsMode, cloud, nextCloud, now, skew, saves, mountLoad, del,
                   sub, alerts, uncaught, downloads, emailOffers, nDeletes,
                   nLoads, nSubmits>>
    /\ UNCHANGED loginVars

\* localStorage stops taking writes (full or unavailable), or its content
\* stops being the JSON the handlers wrote (it does not parse, or it holds
\* an element without a data field)
StorageFails(m) ==
    /\ lsMode = "ok"
    /\ lsMode' = m
    /\ UNCHANGED <<currentDocId, saveStatus, formData, history, isSubmitting,
                   local, cloud, nextCloud, now, skew, saves, mountLoad, del,
                   sub, alerts, uncaught, downloads, emailOffers, nDeletes,
                   nLoads, nSubmits, nEdits>>
    /\ UNCHANGED loginVars

Next ==
    \/ SaveClick
    \/ \E i \in DOMAIN saves : SaveCreateOk(i)
    \/ \E i \in DOMAIN saves : SaveUpdateOk(i)
    \/ \E i \in DOMAIN saves : SaveCloudFail(i)
    \/ \E i \in DOMAIN saves : SaveRefreshDone(i)
    \/ \E i \in DOMAIN saves : SaveTimerFires(i)
    \/ MountLoadDone
    \/ SubmitUnsigned
    \/ SubmitRenderFails
    \/ SubmitUploads
    \/ SubmitOffline
    \/ SubmitUploadDone
    \/ SubmitEmailOffer
    \/ \E id \in Ids(history) : DeleteClick(id)
    \/ DeleteCloudDone
    \/ \E i \in DOMAIN history : LoadHistoryItem(i)
    \/ \E b \in BOOLEAN : SetSignature(b)
    \/ \E m \in {"full", "corrupt", "nodata"} : StorageFails(m)

Spec == Init /\ [][Next]_vars

\* ------------------------------------------------- the saves of a session

\* A session in which the technician only saves.  What handleSave awaits
\* (addDoc, updateDoc, getDocs) settles in the end, resolved or rejected,
\* and the timer it sets fires.
SaveSettles(i) ==
    /\ i \in DOMAIN saves
    /\ (SaveCreateOk(i) \/ SaveUpdateOk(i) \/ SaveCloudFail(i))

SaveRefreshes(i) == i \in DOMAIN saves /\ SaveRefreshDone(i)

SaveTimer(i) == i \in DOMAIN saves /\ SaveTimerFires(i)

SaveNext ==
    \/ SaveClick
    \/ \E i \in 1..MaxSaves : SaveSettles(i)
    \/ \E i \in 1..MaxSaves : SaveRefreshes(i)
    \/ \E i \in 1..MaxSaves : SaveTimer(i)
    \/ MountLoadDone
    \/ \E m \in {"full", "corrupt", "nodata"} : StorageFails(m)

SaveFair ==
    \A i \in 1..MaxSaves :
        /\ WF_vars(SaveSettles(i))
        /\ WF_vars(SaveRefreshes(i))
        /\ WF_vars(SaveTimer(i))

SaveLiveSpec == Init /\ [][SaveNext]_vars /\ SaveFair

\* ------------------------------------------- loadHistory on stored records

\* The records a device and the cloud can hold when a session starts, left
\* by earlier sessions of this and of other technicians: a local record is
\* keyed by a local draft id or, after the fallback of an update, by a cloud
\* id; a cloud document is keyed by a cloud id; saveToLocalStorage keeps the
\* ids of the local collection distinct, and so does the cloud; the local
\* records are signed and the cloud documents are not, so that the two
\* copies of an id differ in their data
StoredTimes == 1..MaxTime

StoredRecords(ids, sigs) ==
    [id : ids, timestamp : StoredTimes, techId : {Me, Other}, sig : sigs]

DistinctIds(s) == \A i, j \in DOMAIN s : s[i].id = s[j].id => i = j

StoredLocals ==
    {s \in UNION {[1..n -> StoredRecords({LocalId(1), CloudId(1)}, {TRUE})] :
                     n \in 0..MaxStored} : DistinctIds(s)}

StoredClouds ==
    {S \in SUBSET StoredRecords({CloudId(1), CloudId(2)}, {FALSE}) :
        \A d, e \in S : d.id = e.id => d = e}

\* A session that mounts on such a device: the effect on mount calls
\* loadHistory, which reads its local part at once and awaits getDocs
ListInit ==
    /\ currentDocId = NoId
    /\ saveStatus = "idle"
    /\ formData = NoForm
    /\ history = <<>>
    /\ isSubmitting = FALSE
    /\ local \in StoredLocals
    /\ cloud \in StoredClouds
    /\ lsMode \in {"ok", "full", "corrupt", "nodata"}
    /\ nextCloud = 3
    /\ now = MaxTime + 1
    /\ skew = 1
    /\ saves = <<>>
    /\ mountLoad = [pc |-> "query", localPart |-> LocalPart, query |-> "none"]
    /\ del = IdleDelete
    /\ sub = IdleSubmit
    /\ alerts = {}
    /\ uncaught = FALSE
    /\ downloads = 0
    /\ emailOffers = 0
    /\ nDeletes = 0
    /\ nLoads = 0
    /\ nSubmits = 0
    /\ nEdits = 0
    /\ LoginDone

ListNext == MountLoadDone

ListSpec == ListInit /\ [][ListNext]_vars

\* ------------------------------------------------------------ LoginScreen

\* (mutant) initiateLogin without setLoginMode('pin')
InitiateLoginKeepsMode(user) ==
    /\ loggedIn = NoUser
    /\ view = "list"
    /\ user \in users
    /\ selectedUser' = user
    /\ pinInput' = <<>>
    /\ error' = ""
    /\ view' = "login"
    /\ UNCHANGED <<loginMode, users, loggedIn, masterFor, formVars>>

\* A profile card of the list: initiateLogin(user)
InitiateLogin(user) ==
    /\ loggedIn = NoUser
    /\ view = "list"
    /\ user \in users
    /\ selectedUser' = user
    /\ pinInput' = <<>>
    /\ error' = ""
    /\ loginMode' = "pin"
    /\ view' = "login"
    /\ UNCHANGED <<users, loggedIn, masterFor, formVars>>

\* The PIN field of the login view: onChange sets pinInput
TypePin(v) ==
    /\ loggedIn = NoUser
    /\ view = "login"
    /\ selectedUser # NoUser
    /\ pinInput # v
    /\ pinInput' = v
    /\ UNCHANGED <<users, view, selectedUser, loginMode, error, loggedIn,
                   masterFor, formVars>>

\* handlePinSubmit (Enter, or the submit of the form): the normal login,
\* the check of the manager code, the setting of a new PIN
HandlePinSubmit ==
    /\ loggedIn = NoUser
    /\ view = "login"
    /\ selectedUser # NoUser
    /\ CASE loginMode = "pin" ->
              IF pinInput = selectedUser.pin
              THEN /\ loggedIn' = selectedUser
                   /\ error' = ""
                   /\ UNCHANGED <<pinInput, loginMode, masterFor>>
              ELSE /\ error' = "Incorrect PIN"
                   /\ pinInput' = <<>>
                   /\ UNCHANGED <<loggedIn, loginMode, masterFor>>
         [] loginMode = "admin_override" ->
              IF pinInput = MASTER_CODE
              THEN /\ loginMode' = "new_pin"
                   /\ pinInput' = <<>>
                   /\ error' = ""
                   /\ masterFor' = selectedUser.id
                   /\ UNCHANGED loggedIn
              ELSE /\ error' = "Invalid Manager Code"
                   /\ pinInput' = <<>>
                   /\ UNCHANGED <<loggedIn, loginMode, masterFor>>
         [] loginMode = "new_pin" ->
              IF Len(pinInput) < 4
              THEN /\ error' = "PIN must be 4-6 digits"
                   /\ UNCHANGED <<loggedIn, pinInput, loginMode, masterFor>>
              ELSE /\ loggedIn' = [selectedUser EXCEPT !.pin = pinInput]
                   /\ error' = ""
                   /\ UNCHANGED <<pinInput, loginMode, masterFor>>
    /\ UNCHANGED <<users, view, selectedUser, formVars>>

\* Cancel in the login view: setView('list')
CancelLogin ==
    /\ loggedIn = NoUser
    /\ view = "login"
    /\ view' = "list"
    /\ UNCHANGED <<users, selectedUser, loginMode, pinInput, error, loggedIn,
                   masterFor, formVars>>

\* "Forgot PIN?", shown in mode pin only
ForgotPin ==
    /\ loggedIn = NoUser
    /\ view = "login"
    /\ selectedUser # NoUser
    /\ loginMode = "pin"
    /\ loginMode' = "admin_override"
    /\ pinInput' = <<>>
    /\ error' = ""
    /\ UNCHANGED <<users, view, selectedUser, loggedIn, masterFor, formVars>>

\* "+ Create New Profile" and the close button of the create view
OpenCreate ==
    /\ loggedIn = NoUser
    /\ view = "list"
    /\ view' = "create"
    /\ UNCHANGED <<users, selectedUser, loginMode, pinInput, error, loggedIn,
                   masterFor, formVars>>

CloseCreate ==
    /\ loggedIn = NoUser
    /\ view = "create"
    /\ view' = "list"
    /\ UNCHANGED <<users, selectedUser, loginMode, pinInput, error, loggedIn,
                   masterFor, formVars>>

\* handleCreateUser with every field filled: the profile joins the list, by
\* the snapshot or by the local fallback, and the view returns to the list
HandleCreateUser(newPin) ==
    /\ loggedIn = NoUser
    /\ view = "create"
    /\ newPin # <<>>
    /\ Cardinality(users) < MaxUsers
    /\ users' = users \cup {[id |-> Cardinality(users) + 1, pin |-> newPin]}
    /\ view' = "list"
    /\ error' = ""
    /\ UNCHANGED <<selectedUser, loginMode, pinInput, loggedIn, masterFor,
                   formVars>>

\* useState initial values of LoginScreen over a device with two profiles;
\* no form is mounted
LoginInit ==
    /\ FormInit
    /\ skew = 1
    /\ users = {UserMe, UserOther}
    /\ view = "list"
    /\ selectedUser = NoUser
    /\ loginMode = "pin"
    /\ pinInput = <<>>
    /\ error = ""
    /\ loggedIn = NoUser
    /\ masterFor = 0

LoginNext ==
    \/ \E user \in users : InitiateLogin(user)
    \/ \E v \in PinInputs : TypePin(v)
    \/ HandlePinSubmit
    \/ CancelLogin
    \/ ForgotPin
    \/ OpenCreate
    \/ CloseCreate
    \/ \E newPin \in PinInputs : HandleCreateUser(newPin)

LoginSpec == LoginInit /\ [][LoginNext]_vars

\* ----------------------------------------------------------------- claims

SaveIx == DOMAIN saves

\* No deleteHistoryItem and no loadHistoryItem has run in the session
NoDeleteNoLoad == nDeletes = 0 /\ nLoads = 0

\* The save's cloud attempt has settled
Resolved(i) == saves[i].pc # "cloud"

\* The save has persisted its record, in the cloud or in the local store
Persisted(i) == saves[i].outcome \in {"success", "local"}

Promoted(i) == saves[i].op = "create"

FirstPromoted ==
    CHOOSE i \in SaveIx : Promoted(i) /\ \A j \in 1..(i - 1) : ~Promoted(j)

NoCloudSuccess == \A i \in SaveIx : saves[i].outcome # "success"

MyLocal == FilterTech(local, Me)

\* The history view holds every cloud document of the technician
QuerySeen == {d.id : d \in QueryDocs(cloud)} \subseteq Ids(history)

\* C1. Identity stability: in a session without delete and load, once a save
\* has promoted the binding to a cloud id the binding stays that id and every
\* later save persists under it; and when no cloud write ever succeeds, every
\* save persists under the local draft id the first save minted.
C1_IdentityStability ==
    NoDeleteNoLoad =>
       /\ (\E i \in SaveIx : Promoted(i)) =>
             /\ currentDocId = saves[FirstPromoted].docId
             /\ \A j \in SaveIx :
                   (j > FirstPromoted /\ Persisted(j))
                      => saves[j].docId = saves[FirstPromoted].docId
       /\ NoCloudSuccess =>
             \A j \in SaveIx : Persisted(j) => saves[j].docId = saves[1].startId

\* C2. No duplication: after two consecutive saves of a session that started
\* with a null binding, the history that the second save's loadHistory
\* computed holds exactly one entry for the document the two saves wrote.
C2_NoDuplication ==
    (/\ NoDeleteNoLoad
     /\ nSubmits = 0
     /\ lsMode = "ok"
     /\ Len(saves) = 2
     /\ saves[2].pc \in {"timer", "done"}
     /\ mountLoad.pc = "query"
     /\ QuerySeen)
    => Cardinality({k \in DOMAIN history :
                       history[k].id \in {saves[1].docId, saves[2].docId}}) = 1

\* C3. Fallback determinism: when no cloud write succeeds and there is no
\* delete and no load, every save is upserted into the local store under the
\* id the first save minted, the binding is that id, the local collection
\* holds one record of the technician, and the history a save's loadHistory
\* computes is exactly that record.
C3_FallbackDeterminism ==
    (/\ NoDeleteNoLoad
     /\ lsMode = "ok"
     /\ NoCloudSuccess
     /\ saves # <<>>
     /\ \A i \in SaveIx : Resolved(i))
    => /\ \A i \in SaveIx :
             saves[i].outcome = "local" /\ saves[i].docId = saves[1].startId
       /\ currentDocId = saves[1].startId
       /\ Len(MyLocal) = 1
       /\ ((\A i \in SaveIx : saves[i].pc \in {"timer", "done"})
             /\ mountLoad.pc = "query") => history = MyLocal

\* C4. Dedup correctness: the history view never holds two entries with the
\* same id, also when a local record and a cloud document share an id.
C4_DedupCorrectness ==
    \A i, j \in DOMAIN history : history[i].id = history[j].id => i = j

\* A local record and a cloud document of the technician share an id, and
\* the history view holds an entry with it
C4_Witness ==
    \E k \in DOMAIN history :
        /\ history[k].id \in Ids(MyLocal)
        /\ history[k].id \in {d.id : d \in QueryDocs(cloud)}

\* C5. Submission non-blocking: a submit with a signed form whose upload
\* failed and during which no document-store call succeeded has delivered
\* the download, has left a record of the technician in the local store and
\* has reported no error, once no save is waiting for the cloud any more.
C5_SubmitNonBlocking ==
    (/\ sub.result = "delivered"
     /\ sub.upload = "failed"
     /\ ~sub.cloudOk
     /\ lsMode = "ok"
     /\ \A i \in SaveIx : Resolved(i))
    => /\ downloads >= 1
       /\ "error" \notin alerts
       /\ MyLocal # <<>>

\* C6. Create routing: a save whose cloud create succeeded started from a
\* null or local draft binding, created one document, made the binding the
\* cloud id, ended in success and wrote nothing locally; and the local draft
\* id it discarded is never the binding again.
C6_CreateRouting ==
    \A i \in SaveIx :
        Promoted(i) =>
           /\ IsLocalId(saves[i].startId)
           /\ ~IsLocalId(saves[i].docId)
           /\ saves[i].docId \in {CloudId(n) : n \in 1..(nextCloud - 1)}
           /\ saves[i].bindAfter = saves[i].docId
           /\ saves[i].outcome = "success"
           /\ ~saves[i].wroteLocal
           /\ currentDocId # saves[i].startId

\* C7. Update routing: a save that ran with a cloud id as its binding never
\* creates a document, updates that id, and ends in success when the update
\* succeeds; so in a session without delete and load in which no cloud write
\* fails, at most one cloud document is created.
C7_UpdateRouting ==
    /\ \A i \in SaveIx :
          (saves[i].bound # NoId /\ ~IsLocalId(saves[i].bound)) =>
             /\ saves[i].op # "create"
             /\ saves[i].docId = saves[i].bound
             /\ saves[i].op = "update" => saves[i].outcome = "success"
    /\ (/\ NoDeleteNoLoad
        /\ \A i \in SaveIx : saves[i].outcome \in {"none", "success"})
          => Cardinality({i \in SaveIx : Promoted(i)}) <= 1

\* The records of a sequence that carry the id
RECURSIVE WithId(_, _)
WithId(s, id) ==
    IF s = <<>> THEN <<>>
    ELSE IF Head(s).id = id
         THEN <<Head(s)>> \o WithId(Tail(s), id)
         ELSE WithId(Tail(s), id)

\* The cloud attempt of save i fails in this step
CloudAttemptFails(i) ==
    /\ saves[i].pc = "cloud"
    /\ saves'[i].pc # "cloud"
    /\ saves'[i].op = "none"

C9_OwnerTagging ==
    \A i \in SaveIx :
        /\ saves[i].outcome = "local" =>
              \A k \in DOMAIN local :
                  local[k].id = saves[i].docId => local[k].techId = Me
        /\ saves[i].outcome = "success" =>
              \A d \in cloud : d.id = saves[i].docId => d.techId = Me

\* A cloud update has succeeded and its document is in the cloud
C9_Witness ==
    \E i \in SaveIx : saves[i].op = "update" /\ saves[i].docId \in CloudIds

\* C10. Refresh after save: every save whose cloud attempt has settled,
\* whatever its outcome, has issued its history refresh, and a refresh is
\* issued only once the outcome is set.
C10_RefreshAfterSave ==
    \A i \in SaveIx :
        /\ Resolved(i) => saves[i].refreshes = 1
        /\ saves[i].refreshes > 0 => saves[i].outcome # "none"

\* The sequence is ordered by non-increasing timestamp
IsSortedDesc(s) ==
    \A i, j \in DOMAIN s : i < j => s[i].timestamp >= s[j].timestamp

\* The loadHistory called on mount has stored its history
Listed == mountLoad.pc = "done"

\* C11. Newest first: for every stored local collection and cloud
\* collection, the history that loadHistory stores is ordered by
\* non-increasing timestamp.
C11_NewestFirst == Listed => IsSortedDesc(history)

\* C12. Owner filter: every entry of the history has the techId of the
\* technician of the session, in its local and in its cloud portion; a
\* record another technician saved on the device or in the cloud is never
\* an entry of it.
C12_OwnerFilter ==
    \A k \in DOMAIN history :
        /\ history[k].techId = Me
        /\ \A j \in DOMAIN local :
              local[j].techId = Other => history[k] # local[j]
        /\ \A d \in cloud : d.techId = Other => history[k] # CloudItem(d)

\* loadHistory has stored a history with an entry from each portion while
\* the device and the cloud hold records of another technician
C12_Witness ==
    /\ Listed
    /\ \E j \in DOMAIN local : local[j].techId = Other
    /\ \E d \in cloud : d.techId = Other
    /\ \E k \in DOMAIN history : history[k] \in {local[j] : j \in DOMAIN local}
    /\ \E k \in DOMAIN history : history[k] \in {CloudItem(d) : d \in cloud}

\* The records of the technician in a local collection that can be read
OwnLocal == {local[j] : j \in {i \in DOMAIN local : local[i].techId = Me}}

\* C13. Cloud query failure: when the cloud query of loadHistory fails,
\* loadHistory does not fail and stores as the history exactly the local
\* records of the technician, each once, ordered by non-increasing
\* timestamp, and no cloud document.
C13_CloudQueryFailure ==
    (Listed /\ mountLoad.query = "failed") =>
       /\ ~uncaught
       /\ {history[k] : k \in DOMAIN history}
             = (IF Readable THEN OwnLocal ELSE {})
       /\ DistinctIds(history)
       /\ IsSortedDesc(history)

\* The query failed while the cloud held a document of the technician, and
\* the history is the two local records of the technician
C13_Witness ==
    /\ Listed
    /\ mountLoad.query = "failed"
    /\ \E d \in cloud : d.techId = Me
    /\ Len(history) = 2
    /\ history[1].timestamp > history[2].timestamp

\* C14. Local read failure: when the local collection does not parse or
\* holds an element without a data field, loadHistory does not fail, its
\* local portion is empty, and the cloud documents of the technician are
\* still stored as the history (none when the query fails as well).
C14_LocalReadFailure ==
    (Listed /\ lsMode \in {"corrupt", "nodata"}) =>
       /\ ~uncaught
       /\ {history[k] : k \in DOMAIN history}
             = (IF mountLoad.query = "ok"
                THEN {CloudItem(d) : d \in {e \in cloud : e.techId = Me}}
                ELSE {})
       /\ DistinctIds(history)

\* The local collection holds a record of the technician but has an element
\* without a data field, and the history is the two cloud documents
C14_Witness ==
    /\ Listed
    /\ lsMode = "nodata"
    /\ \E j \in DOMAIN local : local[j].techId = Me
    /\ mountLoad.query = "ok"
    /\ Len(history) = 2

\* Submit is clicked in this step
SubmitClicked == nSubmits' = nSubmits + 1

\* C15. Submit precondition: a handleSubmit on a form whose technician
\* signature is null reports the validation error and does nothing else: no
\* upload is started, no save is started, nothing is downloaded or offered,
\* and the binding, saveStatus, the local store, the cloud store and the
\* history are unchanged.
C15_SubmitPrecondition ==
    [][(SubmitClicked /\ ~formData.sig) =>
          /\ "sign" \in alerts'
          /\ sub'.result = "validation"
          /\ sub'.pc = "idle"
          /\ UNCHANGED <<currentDocId, saveStatus, local, cloud, nextCloud,
                         saves, history, isSubmitting, downloads, emailOffers,
                         uncaught, formData>>]_vars

\* Submit was clicked on an unsigned form while a save was in flight
C15_Witness ==
    /\ sub.result = "validation"
    /\ "sign" \in alerts
    /\ \E i \in SaveIx : saves[i].pc = "cloud"

\* handleOfflineSubmit runs in this step
Delivers == downloads' = downloads + 1

\* C16. Implicit save on submit: every handleSubmit that passed the
\* signature check and rendered starts a save of the form under the binding
\* the session has at that moment, whatever the state of earlier saves.
C16_ImplicitSaveOnSubmit ==
    [][Delivers =>
          /\ Len(saves') = Len(saves) + 1
          /\ saves'[Len(saves')].bound = currentDocId
          /\ saves'[Len(saves')].form = formData]_vars

\* C17. Submit step order: in a submit run the save of the record is
\* invoked and has resolved before the download is delivered, and the email
\* offer comes after the download.
C17_SubmitStepOrder ==
    /\ emailOffers <= downloads
    /\ (sub.result = "delivered" /\ sub.saveIx # 0) =>
          saves[sub.saveIx].pc # "cloud"

\* C18. Rendering failure: a handleSubmit whose PDF rendering fails is
\* aborted and the error is shown to the user; no upload and no save is
\* started, nothing is downloaded or offered, and the binding, the local
\* store and the cloud store are unchanged.
C18_RenderingFailure ==
    [][(SubmitClicked /\ sub'.result = "renderError") =>
          /\ "error" \in alerts'
          /\ sub'.pc = "idle"
          /\ ~isSubmitting'
          /\ UNCHANGED <<currentDocId, saveStatus, local, cloud, nextCloud,
                         saves, history, downloads, emailOffers, uncaught,
                         formData>>]_vars

\* The rendering failed for a signed form after a save of the session, and
\* the error was shown
C18_Witness ==
    /\ sub.result = "renderError"
    /\ "error" \in alerts
    /\ formData.sig
    /\ saves # <<>>

\* C19. Local storage failure is surfaced: a save whose cloud attempt
\* failed and whose local write failed as well has reported the failure to
\* the user, whether the Save button or a submit started it, and saveStatus
\* does not show it as success or local.
C19_StorageFailureSurfaced ==
    \A i \in SaveIx :
        saves[i].pc = "crashed" =>
           /\ "saveFailed" \in alerts
           /\ saveStatus \notin {"success", "local"}

\* C20. No uncaught error: no run of handleSave, loadHistory,
\* deleteHistoryItem or handleSubmit ends with an uncaught exception or an
\* unhandled rejected promise, whatever fails in the cloud, in the blob
\* store or in localStorage.
C20_NoUncaughtError == ~uncaught

\* deleteHistoryItem's deleteDoc has settled and the handler ends in this
\* step
DeleteEnds == del.pc = "cloud" /\ del'.pc = "idle"

\* A handleSave passes its guard in this step
SaveStarts == Len(saves') = Len(saves) + 1

\* C21. Binding cleared on delete: a confirmed deleteHistoryItem(id), when
\* it ends, has set the binding to null exactly when id is the binding of
\* the session and has left it unchanged otherwise; and a save that starts
\* with a null binding mints a new local draft id.
C21_BindingClearedOnDelete ==
    [][/\ DeleteEnds =>
             currentDocId' = IF del.id = currentDocId THEN NoId
                             ELSE currentDocId
       /\ (SaveStarts /\ saves'[Len(saves')].bound = NoId) =>
             /\ saves'[Len(saves')].startId = LocalId(now)
             /\ \A i \in SaveIx : saves[i].startId # LocalId(now)]_vars

\* The cloud create of save i succeeds in this step
CreateSucceeds(i) == saves[i].pc = "cloud" /\ saves'[i].op = "create"

\* C22. Late promotion leaves an orphan: when a save whose binding is a
\* local draft id under which the local store holds a record finds the
\* cloud available, it creates a new cloud document (it never updates), the
\* binding becomes the new cloud id, and the local collection, the record
\* under the draft id included, is left as it was.
C22_LatePromotionOrphan ==
    [][\A i \in SaveIx :
          /\ (IsLocalId(saves[i].startId) /\ saves[i].pc = "cloud") =>
                saves'[i].op # "update"
          /\ (CreateSucceeds(i) /\ WithId(local, saves[i].startId) # <<>>) =>
                /\ saves'[i].docId \notin CloudIds
                /\ \E d \in cloud' : d.id = saves'[i].docId /\ d.techId = Me
                /\ currentDocId' = saves'[i].docId
                /\ local' = local]_vars

\* The first save fell back to a local draft, the second created a cloud
\* document, and both stores hold a record of the form
C22_Witness ==
    /\ Len(saves) = 2
    /\ saves[1].outcome = "local"
    /\ saves[2].op = "create"
    /\ saves[2].startId = saves[1].docId
    /\ WithId(local, saves[1].docId) # <<>>
    /\ saves[2].docId \in CloudIds
    /\ currentDocId = saves[2].docId

\* The saves whose cloud call is in flight
InFlight == {i \in SaveIx : saves[i].pc = "cloud"}

\* C23. Single writer: at most one save of the session is in flight at any
\* time, a save starts only when saveStatus is idle, and in a session
\* without delete and load the saves never create two cloud documents.
C23_SingleWriter ==
    /\ Cardinality(InFlight) <= 1
    /\ NoDeleteNoLoad => Cardinality({i \in SaveIx : Promoted(i)}) <= 1

\* Every loadHistory issued so far has stored its history
RefreshesDone ==
    /\ mountLoad.pc = "done"
    /\ \A i \in SaveIx : saves[i].pc \in {"timer", "done"}

\* C24. History reflects the save: with localStorage healthy, no delete, no
\* load and no submit, once every save has resolved with success or local
\* and every loadHistory issued so far has stored its history (the query of
\* the one on mount answered, every cloud document of the technician in
\* the view), the history holds an entry with the id of the binding.
C24_HistoryReflectsSave ==
    (/\ lsMode = "ok"
     /\ NoDeleteNoLoad
     /\ nSubmits = 0
     /\ saves # <<>>
     /\ \A i \in SaveIx : Persisted(i)
     /\ RefreshesDone
     /\ mountLoad.query = "ok"
     /\ QuerySeen)
    => currentDocId \in Ids(history)

\* C25. Local id uniqueness: the local collection never holds two records
\* with one id; the upsert of a save's fallback under an id the collection
\* holds replaces that record in place and changes no other record, and
\* under a new id it appends one record and changes no other.
C25_LocalIdUniqueness ==
    [][/\ DistinctIds(local')
       /\ \A i \in SaveIx :
             (CloudAttemptFails(i) /\ Writable) =>
                LET id == saves[i].docId
                    rec == [id |-> id, timestamp |-> now, techId |-> Me,
                            sig |-> saves[i].form.sig]
                IN  IF id \in Ids(local)
                    THEN /\ Len(local') = Len(local)
                         /\ \A k \in DOMAIN local :
                               local'[k] = IF local[k].id = id THEN rec
                                           ELSE local[k]
                    ELSE local' = Append(local, rec)]_vars

\* Two saves fell back to the local store under one id, and the collection
\* holds one record with it behind the record of another technician
C25_Witness ==
    /\ Len(saves) = 2
    /\ saves[1].outcome = "local"
    /\ saves[2].outcome = "local"
    /\ saves[1].docId = saves[2].docId
    /\ Len(local) = 2
    /\ local[2].id = saves[2].docId

\* C26. Save status returns to idle: whenever a save has started and
\* saveStatus is saving, saveStatus is idle again at some later time,
\* whatever fails in the cloud, in the history query or in localStorage.
C26_StatusReturnsToIdle == (saveStatus = "saving") ~> (saveStatus = "idle")

\* No save has been requested since the form was loaded from the history:
\* only loadHistoryItem puts a techId into formData, and a save keeps the
\* formData it was started with
NoSaveSinceLoad == \A i \in SaveIx : saves[i].form.techId = NoTech

\* C27. Load binds the loaded document: in a session without delete and
\* submit, after a confirmed loadHistoryItem(data, id) the binding stays id
\* until the next save is requested, also when a save requested before the
\* load is still waiting for the cloud.
C27_LoadBindsDocument ==
    [][(/\ nLoads = 1
        /\ nDeletes' = 0
        /\ nSubmits' = 0
        /\ NoSaveSinceLoad') => currentDocId' = currentDocId]_vars

\* A deleteHistoryItem has run to its end
Deleted == del.pc = "idle" /\ del.result = "done"

\* C28. Delete is permanent: when a confirmed deleteHistoryItem(id) ends,
\* the local collection and the history view hold nothing under id, whether
\* or not the cloud delete succeeded; and from then on the history view
\* does not show id again as long as no save has written under it (no
\* local record under id, no update of document id).
C28_DeletePermanent ==
    [][/\ (DeleteEnds /\ del'.result = "done") =>
             /\ del.id \notin Ids(local')
             /\ del.id \notin Ids(history')
       /\ (/\ Deleted
           /\ del.id \notin Ids(history)
           /\ del.id \notin Ids(local')
           /\ \A i \in DOMAIN saves' :
                 ~(saves'[i].op = "update" /\ saves'[i].docId = del.id))
          => del.id \notin Ids(history')]_vars

\* The copies loadHistory has merged under an id: the local record of the
\* technician when the collection can be read, and the cloud document of
\* the technician when the query was answered
LocalCopies(id) ==
    IF Readable
    THEN {local[j] : j \in {i \in DOMAIN local :
                               local[i].techId = Me /\ local[i].id = id}}
    ELSE {}

CloudCopies(id) ==
    IF mountLoad.query = "ok"
    THEN {CloudItem(d) : d \in {e \in cloud : e.techId = Me /\ e.id = id}}
    ELSE {}

\* C29 as stated. Dedup keeps the newest copy: the entry loadHistory keeps
\* for an id has the largest timestamp of the copies merged under that id.
C29_DedupKeepsNewest ==
    Listed =>
       \A k \in DOMAIN history :
           \A c \in LocalCopies(history[k].id) \cup CloudCopies(history[k].id) :
               history[k].timestamp >= c.timestamp

\* C29 as amended. Dedup keeps the last copy in sorted order: the entry
\* loadHistory keeps for an id is one of the copies merged under that id,
\* the one with the smallest timestamp, and the cloud copy when the local
\* and the cloud copy have the same timestamp.
C29_DedupKeepsLastSorted ==
    Listed =>
       \A k \in DOMAIN history :
           LET id == history[k].id
               copies == LocalCopies(id) \cup CloudCopies(id)
           IN  /\ history[k] \in copies
               /\ \A c \in copies : history[k].timestamp <= c.timestamp
               /\ (\E c \in CloudCopies(id) :
                      c.timestamp = history[k].timestamp)
                     => history[k] \in CloudCopies(id)

\* The local collection and the cloud hold a copy of one id with different
\* timestamps and data, and the history holds one entry for it
C29_Witness ==
    /\ Listed
    /\ \E k \in DOMAIN history :
          /\ LocalCopies(history[k].id) # {}
          /\ CloudCopies(history[k].id) # {}
          /\ \E c \in LocalCopies(history[k].id) :
                c.timestamp > history[k].timestamp

\* C30. Login gate: a step in which onLogin is called is a handlePinSubmit
\* in mode pin with the PIN of the selected user entered, handing over that
\* user, or one in mode new_pin with at least 4 characters entered after
\* the master code was accepted for the selected user, handing over that
\* user with the new PIN; mode new_pin is only ever held for the user for
\* whom the master code was accepted, and selecting a user sets mode pin.
C30_LoginGate ==
    [][/\ (loggedIn = NoUser /\ loggedIn' # NoUser) =>
             \/ /\ loginMode = "pin"
                /\ pinInput = selectedUser.pin
                /\ loggedIn' = selectedUser
             \/ /\ loginMode = "new_pin"
                /\ masterFor = selectedUser.id
                /\ Len(pinInput) >= 4
                /\ loggedIn'.id = selectedUser.id
                /\ loggedIn'.pin = pinInput
       /\ loginMode' = "new_pin" => masterFor' = selectedUser'.id
       /\ selectedUser' # selectedUser => loginMode' = "pin"]_vars

\* A user was handed to onLogin with a new PIN, after the master code had
\* been accepted for another user before
C30_Witness ==
    /\ loggedIn # NoUser
    /\ loggedIn.pin # selectedUser.pin
    /\ loggedIn.id = UserOther.id
    /\ loginMode = "new_pin"
    /\ Cardinality(users) = MaxUsers

====
